---------------------------- MODULE Spec2Model ----------------------------
(***************************************************************************)
(* Recurrence projection of mcp_google/calendar.py                         *)
(* (project_recurring_events) together with the master-event fetch it      *)
(* relies on (find_events and the pydantic models of calendar_models.py).  *)
(* Further specifications of the same module: two projection calls running *)
(* concurrently against a calendar that changes (SpecConcurrent), the      *)
(* per-day statistics of analyze_busyness (SpecBusy) and the sender lookup *)
(* of google_chat.py list_space_messages_with_user_details (SpecChat).     *)
(* Each specification moves its own variables and leaves the others idle.  *)
(*                                                                         *)
(* Instants are integers (one unit = one hour); a datetime value is an     *)
(* instant plus its timezone-awareness.  Python values carry their runtime *)
(* type in the field py, because the dateutil parsers called by the code   *)
(* behave differently on a str and on a datetime/date object.              *)
(***************************************************************************)
EXTENDS Integers, Sequences, FiniteSets, TLC

\* ------------------------------------------------------------------ bounds
MaxEvents == 2      \* items in one backend response
MaxT      == 3      \* instants range over 0..MaxT
MaxCount  == 2      \* largest COUNT= of an RRULE line
MaxChanges == 1     \* changes of the calendar while two calls are in flight
MaxBusyEvents == 2  \* items in one response to analyze_busyness
MaxDay    == 2      \* calendar days range over 0..MaxDay
MaxMessages == 3    \* messages in one answer of spaces().messages().list

VARIABLES
  backend,                  \* the backend snapshot: raw JSON items of events().list
  backend_ok,               \* whether events().list(...).execute() succeeds
  time_min, time_max,       \* the projection window (arguments)
  pc,                       \* position of the call: "fetch", "loop", "done", "raised"
  master_events,            \* master_events_response.items after validation
  idx,                      \* position of the for loop over the items (1-based)
  projected_occurrences,    \* the local list of ProjectedEventOccurrence
  handled,                  \* how each item left the loop body, in loop order
  result,                   \* the returned list (meaningful when pc = "done")
  exc                       \* the exception that left the function ("none" if none)

\* Two concurrent calls of project_recurring_events.
VARIABLES
  calendar,                 \* what events().list answers now: [ok, items]
  changes,                  \* how often the calendar has changed so far
  calls                     \* the locals of each call in flight

\* One call of analyze_busyness.
VARIABLES
  bz_backend, bz_ok,        \* raw items of events().list, and whether it succeeds
  bz_min, bz_max,           \* the analysis window (arguments)
  bz_pc,                    \* "fetch", "loop", "done", "raised"
  bz_events,                \* events_response.items after validation
  bz_idx,                   \* position of the for loop (1-based)
  busyness_by_date,         \* date -> [event_count, total_duration_minutes]
  bz_result,                \* the returned dict (meaningful when bz_pc = "done")
  bz_exc                    \* the exception that left the function

\* One call of list_space_messages_with_user_details.
VARIABLES
  users,                    \* what users().get answers for each sender name
  fetch_user_details,       \* the argument of that name
  received,                 \* what list_space_messages returned: [ok, list]
  messages,                 \* that same list object, updated in place by the loop
  chat_pc,                  \* "list", "loop", "done"
  chat_idx,                 \* position of the for loop (1-based)
  user_cache,               \* the per-call dict sender name -> displayName
  lookups,                  \* the sender names get_user_details was called with
  chat_result               \* the returned value

projVars == <<backend, backend_ok, time_min, time_max, pc, master_events, idx,
              projected_occurrences, handled, result, exc>>

concVars == <<calendar, changes, calls>>

busyVars == <<bz_backend, bz_ok, bz_min, bz_max, bz_pc, bz_events, bz_idx,
              busyness_by_date, bz_result, bz_exc>>

chatVars == <<users, fetch_user_details, received, messages, chat_pc, chat_idx,
              user_cache, lookups, chat_result>>

vars == <<projVars, concVars, busyVars, chatVars>>

\* The variables of a specification that is not running.
ProjIdle ==
  /\ backend = <<>> /\ backend_ok = TRUE
  /\ time_min = [t |-> 0, aware |-> FALSE] /\ time_max = [t |-> 0, aware |-> FALSE]
  /\ pc = "idle" /\ master_events = <<>> /\ idx = 1
  /\ projected_occurrences = <<>> /\ handled = <<>>
  /\ result = <<>> /\ exc = "none"

ConcIdle ==
  /\ calendar = [ok |-> TRUE, items |-> <<>>]
  /\ changes = 0
  /\ calls = <<>>

BusyIdle ==
  /\ bz_backend = <<>> /\ bz_ok = TRUE
  /\ bz_min = [t |-> 0, aware |-> FALSE] /\ bz_max = [t |-> 0, aware |-> FALSE]
  /\ bz_pc = "idle" /\ bz_events = <<>> /\ bz_idx = 1
  /\ busyness_by_date = <<>> /\ bz_result = <<>> /\ bz_exc = "none"

ChatIdle ==
  /\ users = <<>> /\ fetch_user_details = TRUE
  /\ received = <<>> /\ messages = <<>> /\ chat_pc = "idle" /\ chat_idx = 1
  /\ user_cache = <<>> /\ lookups = <<>> /\ chat_result = <<>>

\* ------------------------------------------------------------ Python values
\* A value of an optional date/time field.  py is the runtime type:
\*   "none"      None
\*   "str"       a JSON string; ok says whether it is a well-formed ISO value
\*   "datetime"  datetime.datetime (t, aware)
\*   "date"      datetime.date (t)
PyNone == [py |-> "none", ok |-> TRUE, t |-> 0, aware |-> FALSE]

PyStr(ok, t, aware) == [py |-> "str", ok |-> ok, t |-> t, aware |-> aware]

PyDateTime(t, aware) == [py |-> "datetime", ok |-> TRUE, t |-> t, aware |-> aware]

PyDate(t) == [py |-> "date", ok |-> TRUE, t |-> t, aware |-> FALSE]

\* Python truthiness of such a value: None is falsy, a non-empty str and any
\* datetime/date object are truthy.
Truthy(v) == v.py # "none"

\* start / end of an event; present = FALSE is a missing (None) sub-object.
NoDT == [present |-> FALSE, dateTime |-> PyNone, date |-> PyNone]

DT(dateTime, date) == [present |-> TRUE, dateTime |-> dateTime, date |-> date]


\* ------------------------------------------------------- recurrence strings
\* One string of event.recurrence.  kind is what the string starts with:
\* "RRULE" ('RRULE:'), "EXDATE" ('EXDATE'), "OTHER" (anything else, e.g. RDATE).
\* An RRULE line is FREQ=HOURLY;INTERVAL=interval;COUNT=count, or unparsable
\* (ok = FALSE).  An EXDATE line has a ':' separator or not (colon), a
\* VALUE=DATE parameter or not (valueDate) and a comma separated list of
\* values, each a str.
RRuleLine(ok, interval, count) ==
  [kind |-> "RRULE", ok |-> ok, interval |-> interval, count |-> count,
   colon |-> TRUE, valueDate |-> FALSE, values |-> <<>>]

ExDateLine(colon, valueDate, values) ==
  [kind |-> "EXDATE", ok |-> TRUE, interval |-> 1, count |-> 0,
   colon |-> colon, valueDate |-> valueDate, values |-> values]

OtherLine ==
  [kind |-> "OTHER", ok |-> TRUE, interval |-> 1, count |-> 0,
   colon |-> TRUE, valueDate |-> FALSE, values |-> <<>>]

\* event.recurrence: None (present = FALSE) or a list of strings.
NoRecurrence == [present |-> FALSE, lines |-> <<>>]

Recurrence(lines) == [present |-> TRUE, lines |-> lines]

\* summary: None (present = FALSE) or a str, possibly empty.
NoSummary == [present |-> FALSE, text |-> ""]

Summary(text) == [present |-> TRUE, text |-> text]

Event(id, summary, start, end, recurrence) ==
  [id |-> id, summary |-> summary, start |-> start, end |-> end,
   recurrence |-> recurrence]

\* --------------------------------------------------- the inputs enumerated
Awareness == BOOLEAN

RawStarts ==
  {NoDT, DT(PyNone, PyNone), DT(PyStr(FALSE, 0, FALSE), PyNone)}
  \cup {DT(PyStr(TRUE, t, a), PyNone) : t \in 0..1, a \in Awareness}
  \cup {DT(PyNone, PyStr(TRUE, 0, FALSE))}

Hourly == RRuleLine(TRUE, 1, MaxCount)    \* FREQ=HOURLY;COUNT=MaxCount

ExDate1 == ExDateLine(TRUE, FALSE, <<PyStr(TRUE, 1, TRUE)>>)   \* EXDATE:<instant 1, UTC>

RawRecurrences ==
  {NoRecurrence, Recurrence(<<>>), Recurrence(<<OtherLine>>),
   Recurrence(<<RRuleLine(FALSE, 1, 1)>>),
   Recurrence(<<ExDate1>>),
   Recurrence(<<Hourly>>),
   Recurrence(<<RRuleLine(TRUE, 2, MaxCount)>>),
   Recurrence(<<RRuleLine(TRUE, 2, MaxCount), Hourly>>),
   Recurrence(<<Hourly, ExDate1>>),
   Recurrence(<<Hourly, ExDateLine(TRUE, TRUE, <<PyStr(TRUE, 1, FALSE)>>)>>),
   Recurrence(<<Hourly, ExDateLine(TRUE, FALSE, <<PyStr(FALSE, 0, FALSE),
                                                  PyStr(TRUE, 1, TRUE)>>)>>),
   Recurrence(<<Hourly, OtherLine,
                ExDateLine(FALSE, FALSE, <<PyStr(TRUE, 1, TRUE)>>)>>)}

\* The raw items a backend response is drawn from: every kind of start with
\* and without a recurrence rule, a well-formed timed start with every kind of
\* recurrence list, and a well-formed recurring event with an explicit end.
RawEvents ==
  {Event(0, Summary("s"), s, NoDT, r) :
     s \in RawStarts, r \in {NoRecurrence, Recurrence(<<Hourly>>)}}
  \cup {Event(0, Summary("s"), DT(PyStr(TRUE, 0, TRUE), PyNone), NoDT, r) :
          r \in RawRecurrences}
  \cup {Event(0, NoSummary, DT(PyStr(TRUE, 0, TRUE), PyNone),
              DT(PyStr(TRUE, e, TRUE), PyNone), Recurrence(<<Hourly>>)) :
          e \in 0..1}

\* Backend responses of n items; ids are unique (the position).
Snapshots(n) ==
  {[i \in 1..n |-> [f[i] EXCEPT !.id = i]] : f \in [1..n -> RawEvents]}

\* ------------------------------------------------------ pydantic validation
\* EventDateTime.dateTime is Optional[datetime.datetime] and EventDateTime.date
\* is Optional[datetime.date]: validation turns a well-formed JSON string into
\* a datetime / date OBJECT and rejects an ill-formed one.
ValidateDateTime(v) ==
  IF v.py = "str" THEN PyDateTime(v.t, v.aware) ELSE v

ValidateDate(v) ==
  IF v.py = "str" THEN PyDate(v.t) ELSE v

FieldValid(v) == v.py = "none" \/ v.ok

ValidateEventDateTime(d) ==
  IF d.present
    THEN DT(ValidateDateTime(d.dateTime), ValidateDate(d.date))
    ELSE d

EventDateTimeValid(d) ==
  ~d.present \/ (FieldValid(d.dateTime) /\ FieldValid(d.date))

GoogleCalendarEvent(raw) ==
  [raw EXCEPT !.start = ValidateEventDateTime(raw.start),
              !.end = ValidateEventDateTime(raw.end)]

\* EventsResponse(**events_result): every item validated, or ValidationError.
EventsResponseValid(items) ==
  \A i \in 1..Len(items) :
    EventDateTimeValid(items[i].start) /\ EventDateTimeValid(items[i].end)

EventsResponse(items) == [i \in 1..Len(items) |-> GoogleCalendarEvent(items[i])]

\* find_events: None (ok = FALSE) when events().list().execute() raises
\* HttpError or anything else, and when validating the response raises.
\* A slip of lines 228-233: the failure of execute() is swallowed and the
\* response object is built from whatever items there are.
find_events_FailureIgnored(ok, items) ==
  IF EventsResponseValid(items)
    THEN [ok |-> TRUE, items |-> EventsResponse(items)]
    ELSE [ok |-> FALSE, items |-> <<>>]

find_events(ok, items) ==
  IF ok /\ EventsResponseValid(items)
    THEN [ok |-> TRUE, items |-> EventsResponse(items)]
    ELSE [ok |-> FALSE, items |-> <<>>]

\* ---------------------------------------------------------------- dateutil
\* The result of a call that may raise: exc is "none" or the exception class.
Returned(val) == [exc |-> "none", val |-> val]

Raised(e) == [exc |-> e, val |-> PyNone]

\* dateutil.parser.isoparse(x): parses a str; takes len() of its argument, so
\* any object that is not a str/bytes (a datetime, a date) raises TypeError;
\* an ill-formed str raises ValueError.
isoparse(x) ==
  IF x.py # "str" THEN Raised("TypeError")
  ELSE IF ~x.ok THEN Raised("ValueError")
  ELSE Returned(PyDateTime(x.t, x.aware))

\* dateutil.parser.parse(x).date(): "Parser must be a string or character
\* stream" (TypeError) for any other object; ParserError, a ValueError, for an
\* ill-formed str.
parse_date(x) ==
  IF x.py # "str" THEN Raised("TypeError")
  ELSE IF ~x.ok THEN Raised("ValueError")
  ELSE Returned(PyDate(x.t))

\* Durations, in the unit of the instants (one hour).
DefaultTimedDuration == 1       \* timedelta(hours=1)

DefaultAllDayDuration == 24     \* timedelta(days=1)

\* ------------------------------------------------ lines 583-616 of the loop
\* dtstart_obj and event_duration of one event, for an event that passed the
\* checks of lines 575-580.  Only ValueError is caught there (-> "continue");
\* any other exception leaves project_recurring_events.
Anchor(dtstart, duration) ==
  [exc |-> "none", dtstart |-> dtstart, duration |-> duration]

NoAnchor(e) == [exc |-> e, dtstart |-> PyNone, duration |-> 0]

TimedAnchor(event) ==
  LET s == isoparse(event.start.dateTime) IN
  IF s.exc # "none" THEN NoAnchor(s.exc)
  ELSE IF event.end.present /\ Truthy(event.end.dateTime)
    THEN LET e == isoparse(event.end.dateTime) IN
         IF e.exc # "none" THEN NoAnchor(e.exc)
         ELSE IF e.val.aware # s.val.aware
           THEN NoAnchor("TypeError")     \* aware - naive datetime
           ELSE Anchor(s.val, e.val.t - s.val.t)
    ELSE Anchor(s.val, DefaultTimedDuration)

AllDayAnchor(event, tmin) ==
  LET s == parse_date(event.start.date) IN
  IF s.exc # "none" THEN NoAnchor(s.exc)
  ELSE LET dtstart == PyDateTime(s.val.t, tmin.aware) IN
       IF event.end.present /\ Truthy(event.end.date)
         THEN LET e == parse_date(event.end.date) IN
              IF e.exc # "none" THEN NoAnchor(e.exc)
              ELSE Anchor(dtstart, e.val.t - s.val.t)
         ELSE Anchor(dtstart, DefaultAllDayDuration)

StartAndDuration(event, tmin) ==
  IF Truthy(event.start.dateTime)
    THEN TimedAnchor(event)
    ELSE AllDayAnchor(event, tmin)

\* ------------------------------------------------ lines 618-630 of the loop
RRuleIndexes(lines) == {i \in 1..Len(lines) : lines[i].kind = "RRULE"}

MaxOf(S) == CHOOSE m \in S : \A x \in S : x <= m

MinOf(S) == CHOOSE m \in S : \A x \in S : m <= x

\* rrule_str after the loop of lines 622-626: every 'RRULE:' string
\* overwrites the previous one, so the last one in list order remains.
rrule_str(lines) == lines[MaxOf(RRuleIndexes(lines))]

\* exdate_strs: the 'EXDATE' strings, in list order.
exdate_strs(lines) == SelectSeq(lines, LAMBDA l : l.kind = "EXDATE")

\* ------------------------------------------------ dateutil.rrule (635-669)
\* An element of rruleset._rrule: an rrule object (py = "rrule") anchored at
\* (t, aware), or whatever else was handed to rruleset.rrule().
RRuleObject(dtstart, line) ==
  [py |-> "rrule", t |-> dtstart.t, aware |-> dtstart.aware,
   interval |-> line.interval, count |-> line.count]

DateTimeItem(d) ==
  [py |-> "datetime", t |-> d.t, aware |-> d.aware, interval |-> 0, count |-> 0]

\* The instants an rrule object generates.
RuleInstants(r) == {r.t + k * r.interval : k \in 0..(r.count - 1)}

\* rrule.rrulestr(rrule_str, dtstart=dtstart_obj, forceset=True): an rruleset
\* holding the parsed rule; ValueError for an unparsable string.
rrulestr(line, dtstart) ==
  IF line.ok
    THEN [exc |-> "none", rrule |-> <<RRuleObject(dtstart, line)>>, exdate |-> <<>>]
    ELSE [exc |-> "ValueError", rrule |-> <<>>, exdate |-> <<>>]

SetInstants(rs) ==
  UNION {RuleInstants(rs.rrule[k]) : k \in 1..Len(rs.rrule)}

\* main_rule[0]: rrulebase.__getitem__(0) of an rruleset is its first
\* OCCURRENCE, a datetime (IndexError when the set generates nothing); it is
\* not the rrule object the set was built from.
GetItem0(rs) ==
  IF SetInstants(rs) = {}
    THEN Raised("IndexError")
    ELSE Returned(PyDateTime(MinOf(SetInstants(rs)), rs.rrule[1].aware))

\* The values of one EXDATE string that end up in ruleset.exdate(), lines
\* 640-666: no ':' -> nothing; VALUE=DATE -> midnight of the parsed date with
\* dtstart's tzinfo; otherwise isoparse of the value, as parsed; a value that
\* raises ValueError is dropped.
RECURSIVE ExDateValues(_, _, _)
ExDateValues(values, valueDate, dtstart) ==
  IF values = <<>> THEN <<>>
  ELSE LET v == Head(values)
           rest == ExDateValues(Tail(values), valueDate, dtstart)
       IN IF valueDate
            THEN IF parse_date(v).exc = "none"
                   THEN <<PyDateTime(parse_date(v).val.t, dtstart.aware)>> \o rest
                   ELSE rest
            ELSE IF isoparse(v).exc = "none"
                   THEN <<isoparse(v).val>> \o rest
                   ELSE rest

RECURSIVE ExDates(_, _)
ExDates(exdates, dtstart) ==
  IF exdates = <<>> THEN <<>>
  ELSE (IF Head(exdates).colon
          THEN ExDateValues(Head(exdates).values, Head(exdates).valueDate, dtstart)
          ELSE <<>>)
       \o ExDates(Tail(exdates), dtstart)

RECURSIVE SortedSeq(_)
SortedSeq(S) ==
  IF S = {} THEN <<>> ELSE <<MinOf(S)>> \o SortedSeq(S \ {MinOf(S)})

\* ruleset.between(time_min, time_max, inc=True) for a set whose _rrule list
\* is items and whose exdates are exdates.  Iterating the set calls iter() on
\* every element of _rrule: an element that is not an rrule object raises
\* TypeError ('datetime.datetime' object is not iterable).  Comparing an aware
\* with a naive datetime raises TypeError as well.
between(items, exdates, tmin, tmax) ==
  IF \E k \in 1..Len(items) : items[k].py # "rrule"
    THEN [exc |-> "TypeError", val |-> <<>>]
  ELSE LET all == UNION {RuleInstants(items[k]) : k \in 1..Len(items)}
           aware == items[1].aware
           mixed == all # {} /\
                    (aware # tmin.aware \/ aware # tmax.aware \/
                     \E j \in 1..Len(exdates) : exdates[j].aware # aware)
           kept == {i \in all : /\ \A j \in 1..Len(exdates) : exdates[j].t # i
                                /\ tmin.t <= i /\ i <= tmax.t}
       IN IF items = <<>> THEN [exc |-> "none", val |-> <<>>]
          ELSE IF mixed THEN [exc |-> "TypeError", val |-> <<>>]
          ELSE [exc |-> "none",
                val |-> [n \in 1..Cardinality(kept) |->
                           PyDateTime(SortedSeq(kept)[n], aware)]]

\* ------------------------------------------------ lines 673-689 of the loop
ProjectedEventOccurrence(event, occ_start_dt, event_duration) ==
  [original_event_id |-> event.id,
   original_summary |-> IF event.summary.present /\ event.summary.text # ""
                          THEN event.summary.text ELSE "No Summary",
   occurrence_start |-> occ_start_dt,
   occurrence_end |-> PyDateTime(occ_start_dt.t + event_duration, occ_start_dt.aware)]

\* ------------------------------------------------ the try block, 632-693
\* exc = "none": the occurrences appended for this event; otherwise the
\* exception the except clause of line 691 catches.
TryBlock(event, anchor, tmin, tmax) ==
  LET main_rule == rrulestr(rrule_str(event.recurrence.lines), anchor.dtstart)
      first == GetItem0(main_rule)
      exdates == ExDates(exdate_strs(event.recurrence.lines), anchor.dtstart)
      occurrences == between(<<DateTimeItem(first.val)>>, exdates, tmin, tmax)
  IN IF main_rule.exc # "none" THEN [exc |-> main_rule.exc, occs |-> <<>>]
     ELSE IF first.exc # "none" THEN [exc |-> first.exc, occs |-> <<>>]
     ELSE IF occurrences.exc # "none" THEN [exc |-> occurrences.exc, occs |-> <<>>]
     ELSE [exc |-> "none",
           occs |-> [n \in 1..Len(occurrences.val) |->
                       ProjectedEventOccurrence(event, occurrences.val[n],
                                                anchor.duration)]]

\* ------------------------------------------------ one iteration, 574-693
\* how the iteration ends:
\*   "no_recurrence"  continue of line 576
\*   "no_start"       continue of line 580
\*   "parse_error"    continue of line 597 / 612 (ValueError)
\*   "no_rrule"       continue of line 630
\*   "rule_failed"    continue of line 693 (any exception of the try block)
\*   "projected"      the try block completed; occs were appended
\*   "raised"         an exception no handler catches leaves the function
Iteration(how, e, occs) == [how |-> how, exc |-> e, occs |-> occs]

\* A slip of line 575: testing "event.recurrence is None" instead of its
\* truthiness, so that an empty list is not passed over.
NotRecurring_OnlyNone(event) == ~event.recurrence.present

NotRecurring(event) ==
  ~event.recurrence.present \/ event.recurrence.lines = <<>>

NoStart(event) ==
  ~event.start.present \/
  ~(Truthy(event.start.dateTime) \/ Truthy(event.start.date))

LoopBody(event, tmin, tmax) ==
  IF NotRecurring(event) THEN Iteration("no_recurrence", "none", <<>>)
  ELSE IF NoStart(event) THEN Iteration("no_start", "none", <<>>)
  ELSE LET anchor == StartAndDuration(event, tmin) IN
       IF anchor.exc = "ValueError" THEN Iteration("parse_error", "none", <<>>)
       ELSE IF anchor.exc # "none" THEN Iteration("raised", anchor.exc, <<>>)
       ELSE IF RRuleIndexes(event.recurrence.lines) = {}
         THEN Iteration("no_rrule", "none", <<>>)
       ELSE LET t == TryBlock(event, anchor, tmin, tmax) IN
            IF t.exc # "none"
              THEN Iteration("rule_failed", "none", <<>>)
              ELSE Iteration("projected", "none", t.occs)

\* ------------------------------------------------ line 696, the final sort
\* list.sort(key=occurrence_start) is stable: an element is placed after the
\* elements already there whose key is not greater.
RECURSIVE InsertByStart(_, _)
InsertByStart(sorted, o) ==
  IF sorted = <<>> THEN <<o>>
  ELSE IF sorted[Len(sorted)].occurrence_start.t <= o.occurrence_start.t
    THEN Append(sorted, o)
    ELSE Append(InsertByStart(SubSeq(sorted, 1, Len(sorted) - 1), o),
                sorted[Len(sorted)])

RECURSIVE SortByStart(_)
SortByStart(occs) ==
  IF occs = <<>> THEN <<>>
  ELSE InsertByStart(SortByStart(SubSeq(occs, 1, Len(occs) - 1)), occs[Len(occs)])

\* Sorting compares the keys: a list mixing aware and naive starts raises
\* TypeError.
SortRaises(occs) ==
  \E i, j \in 1..Len(occs) :
    occs[i].occurrence_start.aware # occs[j].occurrence_start.aware

\* ------------------------------------------------------------ server tool
\* server.py, project_recurring_calendar_events, after the call of line 717:
\* the reply built from the list the projection returned.  A reply is its
\* first line and one line per occurrence.
NoOccurrencesText ==
  "No recurring event occurrences found in the specified date range."

ProjectedHeader == "Projected recurring event occurrences"

OccurrenceLine(o) ==
  [summary |-> o.original_summary, start |-> o.occurrence_start.t,
   end |-> o.occurrence_end.t]

project_recurring_calendar_events_TestsForNone(occurrences) ==
  [text |-> ProjectedHeader,
   lines |-> [n \in 1..Len(occurrences) |-> OccurrenceLine(occurrences[n])]]

project_recurring_calendar_events(occurrences) ==
  IF occurrences = <<>>
    THEN [text |-> NoOccurrencesText, lines |-> <<>>]
    ELSE [text |-> ProjectedHeader,
          lines |-> [n \in 1..Len(occurrences) |-> OccurrenceLine(occurrences[n])]]

\* ------------------------------------------------------------------- state
Windows ==
  {<<[t |-> lo, aware |-> a], [t |-> hi, aware |-> a]>> :
     lo \in 0..1, hi \in (MaxT - 1)..MaxT, a \in Awareness}

Init ==
  /\ \E n \in 0..MaxEvents : backend \in Snapshots(n)
  /\ backend_ok \in BOOLEAN
  /\ \E w \in Windows : time_min = w[1] /\ time_max = w[2]
  /\ pc = "fetch"
  /\ master_events = <<>>
  /\ idx = 1
  /\ projected_occurrences = <<>>
  /\ handled = <<>>
  /\ result = <<>>
  /\ exc = "none"
  /\ ConcIdle /\ BusyIdle /\ ChatIdle

\* Lines 552-571: the fetch.  No response, or one without items: return [].
FetchNothing ==
  /\ pc = "fetch"
  /\ LET r == find_events(backend_ok, backend) IN ~r.ok \/ r.items = <<>>
  /\ pc' = "done"
  /\ result' = <<>>
  /\ UNCHANGED <<backend, backend_ok, time_min, time_max, master_events, idx,
                 projected_occurrences, handled, exc>>
  /\ UNCHANGED <<concVars, busyVars, chatVars>>

FetchItems ==
  /\ pc = "fetch"
  /\ LET r == find_events(backend_ok, backend) IN
       /\ r.ok /\ r.items # <<>>
       /\ master_events' = r.items
  /\ pc' = "loop"
  /\ idx' = 1
  /\ projected_occurrences' = <<>>
  /\ UNCHANGED <<backend, backend_ok, time_min, time_max, handled, result, exc>>
  /\ UNCHANGED <<concVars, busyVars, chatVars>>

\* One iteration of the for loop of line 574 that ends in a continue or falls
\* through to the next item.
ProcessEvent ==
  /\ pc = "loop"
  /\ idx <= Len(master_events)
  /\ LET it == LoopBody(master_events[idx], time_min, time_max) IN
       /\ it.how # "raised"
       /\ projected_occurrences' = projected_occurrences \o it.occs
       /\ handled' = Append(handled, it.how)
  /\ idx' = idx + 1
  /\ UNCHANGED <<backend, backend_ok, time_min, time_max, pc, master_events,
                 result, exc>>
  /\ UNCHANGED <<concVars, busyVars, chatVars>>

\* One iteration in which an exception escapes every handler: the call ends
\* with that exception and returns nothing.
ProcessEventRaises ==
  /\ pc = "loop"
  /\ idx <= Len(master_events)
  /\ LET it == LoopBody(master_events[idx], time_min, time_max) IN
       /\ it.how = "raised"
       /\ exc' = it.exc
       /\ handled' = Append(handled, it.how)
  /\ pc' = "raised"
  /\ UNCHANGED <<backend, backend_ok, time_min, time_max, master_events, idx,
                 projected_occurrences, result>>
  /\ UNCHANGED <<concVars, busyVars, chatVars>>

\* Lines 695-697: sort and return.
SortAndReturn ==
  /\ pc = "loop"
  /\ idx > Len(master_events)
  /\ IF SortRaises(projected_occurrences)
       THEN pc' = "raised" /\ exc' = "TypeError" /\ result' = result
       ELSE pc' = "done" /\ exc' = exc /\
            result' = SortByStart(projected_occurrences)
  /\ UNCHANGED <<backend, backend_ok, time_min, time_max, master_events, idx,
                 projected_occurrences, handled>>
  /\ UNCHANGED <<concVars, busyVars, chatVars>>

Next == FetchNothing \/ FetchItems \/ ProcessEvent \/ ProcessEventRaises \/ SortAndReturn

Spec == Init /\ [][Next]_vars

\* ======================================================= concurrent calls
\* Two calls of project_recurring_events in flight against one calendar that
\* other clients change meanwhile.  Everything a call works on is a local of
\* the function (lines 552-571): its response, its loop position, its list.
Calls == {1, 2}

\* The calendars the calls may see: an event that is not recurring, a
\* recurring one without a start and a recurring timed one, alone and in
\* pairs, served or refused.
ConcSnapshots ==
  LET plain   == Event(0, Summary("s"), DT(PyStr(TRUE, 0, TRUE), PyNone), NoDT,
                       NoRecurrence)
      nostart == Event(0, Summary("s"), NoDT, NoDT, Recurrence(<<Hourly>>))
      timed   == Event(0, Summary("s"), DT(PyStr(TRUE, 0, TRUE), PyNone), NoDT,
                       Recurrence(<<Hourly>>))
      one     == {<<e>> : e \in {plain, nostart, timed}}
      two     == {<<plain, nostart>>, <<nostart, timed>>, <<timed, plain>>}
  IN {[i \in 1..Len(f) |-> [f[i] EXCEPT !.id = i]] : f \in {<<>>} \cup one \cup two}

Calendars == {[ok |-> ok, items |-> items] : ok \in BOOLEAN, items \in ConcSnapshots}

NewCall(w) ==
  [pc |-> "fetch", time_min |-> w[1], time_max |-> w[2],
   fetched |-> [ok |-> TRUE, items |-> <<>>],
   master_events |-> <<>>, idx |-> 1, projected_occurrences |-> <<>>,
   handled |-> <<>>, result |-> <<>>, exc |-> "none"]

ConcInit ==
  /\ calendar \in Calendars
  /\ changes = 0
  /\ \E w \in {w \in Windows : w[1].t = 0 /\ w[2].t = MaxT} :
       calls = [c \in Calls |-> NewCall(w)]
  /\ ProjIdle /\ BusyIdle /\ ChatIdle

\* Another client edits the calendar, or the service starts or stops failing.
CalendarChanges ==
  /\ changes < MaxChanges
  /\ calendar' \in Calendars \ {calendar}
  /\ changes' = changes + 1
  /\ UNCHANGED <<calls, projVars, busyVars, chatVars>>

\* The items a call's loop runs over (line 574): those of the response object
\* the call itself received at line 557, however the calendar changed since.
ItemsOf_ReadsCalendarAgain(own, now) ==
  IF now.ok /\ EventsResponseValid(now.items) THEN EventsResponse(now.items) ELSE <<>>

ItemsOf(own, now) == own

CallFetchNothing(c) ==
  /\ calls[c].pc = "fetch"
  /\ LET r == find_events(calendar.ok, calendar.items) IN ~r.ok \/ r.items = <<>>
  /\ calls' = [calls EXCEPT ![c].pc = "done", ![c].result = <<>>,
                            ![c].fetched = calendar]
  /\ UNCHANGED <<calendar, changes, projVars, busyVars, chatVars>>

CallFetchItems(c) ==
  /\ calls[c].pc = "fetch"
  /\ LET r == find_events(calendar.ok, calendar.items) IN
       /\ r.ok /\ r.items # <<>>
       /\ calls' = [calls EXCEPT ![c].pc = "loop", ![c].master_events = r.items,
                                 ![c].idx = 1, ![c].fetched = calendar]
  /\ UNCHANGED <<calendar, changes, projVars, busyVars, chatVars>>

CallProcessEvent(c) ==
  /\ calls[c].pc = "loop"
  /\ LET items == ItemsOf(calls[c].master_events, calendar) IN
       /\ calls[c].idx <= Len(items)
       /\ LET it == LoopBody(items[calls[c].idx], calls[c].time_min,
                             calls[c].time_max) IN
            /\ it.how # "raised"
            /\ calls' = [calls EXCEPT
                 ![c].projected_occurrences = @ \o it.occs,
                 ![c].handled = Append(@, it.how),
                 ![c].idx = @ + 1]
  /\ UNCHANGED <<calendar, changes, projVars, busyVars, chatVars>>

CallProcessEventRaises(c) ==
  /\ calls[c].pc = "loop"
  /\ LET items == ItemsOf(calls[c].master_events, calendar) IN
       /\ calls[c].idx <= Len(items)
       /\ LET it == LoopBody(items[calls[c].idx], calls[c].time_min,
                             calls[c].time_max) IN
            /\ it.how = "raised"
            /\ calls' = [calls EXCEPT
                 ![c].pc = "raised", ![c].exc = it.exc,
                 ![c].handled = Append(@, it.how)]
  /\ UNCHANGED <<calendar, changes, projVars, busyVars, chatVars>>

CallSortAndReturn(c) ==
  /\ calls[c].pc = "loop"
  /\ calls[c].idx > Len(ItemsOf(calls[c].master_events, calendar))
  /\ calls' = IF SortRaises(calls[c].projected_occurrences)
                THEN [calls EXCEPT ![c].pc = "raised", ![c].exc = "TypeError"]
                ELSE [calls EXCEPT ![c].pc = "done",
                        ![c].result = SortByStart(calls[c].projected_occurrences)]
  /\ UNCHANGED <<calendar, changes, projVars, busyVars, chatVars>>

ConcNext ==
  \/ CalendarChanges
  \/ \E c \in Calls :
       \/ CallFetchNothing(c)
       \/ CallFetchItems(c)
       \/ CallProcessEvent(c)
       \/ CallProcessEventRaises(c)
       \/ CallSortAndReturn(c)

SpecConcurrent == ConcInit /\ [][ConcNext]_vars

\* ========================================================= analyze_busyness
\* calendar.py lines 700-788.  Instants are hours as above; the date of an
\* instant is its day number.
HoursPerDay == 24        \* datetime.date() of an instant counted in hours

MinutesPerHour == 60     \* duration.total_seconds() / 60.0, for hours

date_of(t) == t \div HoursPerDay

BusyInstants == {d * HoursPerDay + h : d \in 0..MaxDay, h \in {0, HoursPerDay - 1}}

BusyStarts ==
  {NoDT, DT(PyNone, PyNone), DT(PyStr(FALSE, 0, FALSE), PyNone)}
  \cup {DT(PyStr(TRUE, t, TRUE), PyNone) : t \in BusyInstants}
  \cup {DT(PyNone, PyStr(TRUE, d * HoursPerDay, FALSE)) : d \in 0..MaxDay}

BusyEnds ==
  {NoDT} \cup {DT(PyStr(TRUE, t, TRUE), PyNone) : t \in {0, HoursPerDay}}

BusyEvents ==
  {Event(0, Summary("s"), s, e, NoRecurrence) : s \in BusyStarts, e \in BusyEnds}

BusySnapshots(n) ==
  {[i \in 1..n |-> [f[i] EXCEPT !.id = i]] : f \in [1..n -> BusyEvents]}

BusyWindows ==
  {<<[t |-> lo * HoursPerDay, aware |-> TRUE],
     [t |-> hi * HoursPerDay + (HoursPerDay - 1), aware |-> TRUE]>> :
     lo \in 0..MaxDay, hi \in 0..MaxDay}

\* One iteration of the loop of line 741: the event is skipped, counted on a
\* date with some minutes, or an exception leaves the function.
BusySkipped(why) == [how |-> why, exc |-> "none", date |-> 0, minutes |-> 0]

BusyRaised(e) == [how |-> "raised", exc |-> e, date |-> 0, minutes |-> 0]

BusyCounted(d, m) == [how |-> "counted", exc |-> "none", date |-> d, minutes |-> m]

\* Lines 773-782: the minutes added for an event already counted.
DurationMinutes(start_dt, event) ==
  IF Truthy(start_dt) /\ event.end.present /\ Truthy(event.end.dateTime)
    THEN LET e == isoparse(event.end.dateTime) IN
         IF e.exc # "none" THEN 0                  \* ValueError, TypeError: caught
         ELSE IF e.val.aware # start_dt.aware THEN 0   \* TypeError: caught
         ELSE LET m == (e.val.t - start_dt.t) * MinutesPerHour IN
              IF m > 0 THEN m ELSE 0
    ELSE 0

\* Lines 768-782, for an event whose date is known.
CountInWindow(event, start_dt, event_date, tmin, tmax) ==
  IF date_of(tmin.t) <= event_date /\ event_date < date_of(tmax.t)
    THEN BusyCounted(event_date, DurationMinutes(start_dt, event))
    ELSE BusySkipped("outside")

\* Lines 741-782.  Only ValueError is caught around the parsing of the start.
BusyBody(event, tmin, tmax) ==
  IF event.start.present /\ Truthy(event.start.dateTime)
    THEN LET s == isoparse(event.start.dateTime) IN
         IF s.exc = "ValueError" THEN BusySkipped("bad_start")
         ELSE IF s.exc # "none" THEN BusyRaised(s.exc)
         ELSE CountInWindow(event, s.val, date_of(s.val.t), tmin, tmax)
  ELSE IF event.start.present /\ Truthy(event.start.date)
    THEN LET s == parse_date(event.start.date) IN
         IF s.exc = "ValueError" THEN BusySkipped("bad_start")
         ELSE IF s.exc # "none" THEN BusyRaised(s.exc)
         ELSE CountInWindow(event, PyNone, date_of(s.val.t), tmin, tmax)
  ELSE BusySkipped("no_start")

\* busyness_by_date[d]['event_count'] += 1 and the minutes, on a defaultdict.
NoStats == [event_count |-> 0, total_duration_minutes |-> 0]

AddTo(stats, d, m) ==
  [x \in DOMAIN stats \cup {d} |->
     LET old == IF x \in DOMAIN stats THEN stats[x] ELSE NoStats IN
       IF x = d
         THEN [event_count |-> old.event_count + 1,
               total_duration_minutes |-> old.total_duration_minutes + m]
         ELSE old]

BusyInit ==
  /\ \E n \in 0..MaxBusyEvents : bz_backend \in BusySnapshots(n)
  /\ bz_ok \in BOOLEAN
  /\ \E w \in BusyWindows : bz_min = w[1] /\ bz_max = w[2]
  /\ bz_pc = "fetch"
  /\ bz_events = <<>>
  /\ bz_idx = 1
  /\ busyness_by_date = <<>>
  /\ bz_result = <<>>
  /\ bz_exc = "none"
  /\ ProjIdle /\ ConcIdle /\ ChatIdle

\* Lines 724-736: no response or no items: return the empty dict.
BusyFetchNothing ==
  /\ bz_pc = "fetch"
  /\ LET r == find_events(bz_ok, bz_backend) IN ~r.ok \/ r.items = <<>>
  /\ bz_pc' = "done"
  /\ bz_result' = busyness_by_date
  /\ UNCHANGED <<bz_backend, bz_ok, bz_min, bz_max, bz_events, bz_idx,
                 busyness_by_date, bz_exc>>
  /\ UNCHANGED <<projVars, concVars, chatVars>>

BusyFetchItems ==
  /\ bz_pc = "fetch"
  /\ LET r == find_events(bz_ok, bz_backend) IN
       /\ r.ok /\ r.items # <<>>
       /\ bz_events' = r.items
  /\ bz_pc' = "loop"
  /\ bz_idx' = 1
  /\ UNCHANGED <<bz_backend, bz_ok, bz_min, bz_max, busyness_by_date,
                 bz_result, bz_exc>>
  /\ UNCHANGED <<projVars, concVars, chatVars>>

BusyProcessEvent ==
  /\ bz_pc = "loop"
  /\ bz_idx <= Len(bz_events)
  /\ LET it == BusyBody(bz_events[bz_idx], bz_min, bz_max) IN
       /\ it.how # "raised"
       /\ busyness_by_date' =
            IF it.how = "counted"
              THEN AddTo(busyness_by_date, it.date, it.minutes)
              ELSE busyness_by_date
  /\ bz_idx' = bz_idx + 1
  /\ UNCHANGED <<bz_backend, bz_ok, bz_min, bz_max, bz_pc, bz_events,
                 bz_result, bz_exc>>
  /\ UNCHANGED <<projVars, concVars, chatVars>>

BusyProcessEventRaises ==
  /\ bz_pc = "loop"
  /\ bz_idx <= Len(bz_events)
  /\ LET it == BusyBody(bz_events[bz_idx], bz_min, bz_max) IN
       /\ it.how = "raised"
       /\ bz_exc' = it.exc
  /\ bz_pc' = "raised"
  /\ UNCHANGED <<bz_backend, bz_ok, bz_min, bz_max, bz_events, bz_idx,
                 busyness_by_date, bz_result>>
  /\ UNCHANGED <<projVars, concVars, chatVars>>

\* Lines 784-788: sorted by date and returned.
BusyReturn ==
  /\ bz_pc = "loop"
  /\ bz_idx > Len(bz_events)
  /\ bz_pc' = "done"
  /\ bz_result' = busyness_by_date
  /\ UNCHANGED <<bz_backend, bz_ok, bz_min, bz_max, bz_events, bz_idx,
                 busyness_by_date, bz_exc>>
  /\ UNCHANGED <<projVars, concVars, chatVars>>

BusyNext ==
  BusyFetchNothing \/ BusyFetchItems \/ BusyProcessEvent
    \/ BusyProcessEventRaises \/ BusyReturn

SpecBusy == BusyInit /\ [][BusyNext]_vars

\* =================================== list_space_messages_with_user_details
\* google_chat.py lines 511-553.  A text is the sequence of its '/'-separated
\* segments (<<>> is the empty string), so 'users/a' is <<"users", "a">>.
\* A dict entry that may be missing is [has, text].
Absent == [has |-> FALSE, text |-> <<>>]

Text(t) == [has |-> TRUE, text |-> t]

Falsy(v) == ~v.has \/ v.text = <<>>          \* not sender.get('displayName')

Sender(name, displayName) == [name |-> name, displayName |-> displayName]

UserA == <<"users", "a">>

UserB == <<"users", "b">>

BotX == <<"bots", "x">>

ChatNames == {UserA, UserB, BotX, <<>>}

\* The senders of the messages: no sender name at all, a name outside
\* 'users/', and user names with a displayName that is missing, empty or there.
ChatSenders ==
  {Sender(<<>>, Absent), Sender(BotX, Absent), Sender(UserB, Absent)}
  \cup {Sender(UserA, d) : d \in {Absent, Text(<<>>), Text(<<"Given">>)}}

MessageLists ==
  UNION {[1..n -> {[sender |-> x] : x \in ChatSenders}] : n \in 0..MaxMessages}

\* What users().get(name).execute() does for a name: it raises ("fail"), or
\* returns an empty dict ("empty"), a dict without displayName ("no_display"),
\* or a dict with a displayName, possibly the empty string.
Answer(kind, text) == [kind |-> kind, displayName |-> text]

Directories ==
  {[n \in ChatNames |->
      IF n = UserA THEN a ELSE IF n = UserB THEN b ELSE Answer("fail", Absent)] :
     a \in {Answer("fail", Absent), Answer("empty", Absent),
            Answer("no_display", Absent), Answer("dict", Text(<<>>)),
            Answer("dict", Text(<<"Alice">>))},
     b \in {Answer("fail", Absent), Answer("dict", Text(<<"Bob">>))}}

\* get_user_details (lines 452-480): the dict, or None on any exception.
get_user_details(name) ==
  IF users[name].kind = "fail" THEN [ok |-> FALSE, dict |-> users[name]]
  ELSE [ok |-> TRUE, dict |-> users[name]]

\* Line 540: the message needs a name looked up.
NeedsLookup(sender) ==
  /\ sender.name # <<>>
  /\ Falsy(sender.displayName)
  /\ Len(sender.name) > 1 /\ sender.name[1] = "users"    \* startswith('users/')

\* Line 541: sender_name not in user_cache, negated.
Cached_Never(name, cache) == FALSE

Cached(name, cache) == name \in DOMAIN cache

\* Lines 543-548: the value stored for a name after the lookup.  An empty
\* dict is falsy, like None.
CacheValue(name, details) ==
  IF details.ok /\ details.dict.kind # "empty"
    THEN IF details.dict.kind = "dict"
           THEN details.dict.displayName.text       \* .get('displayName', ...)
           ELSE name                                \* the default: sender_name
    ELSE <<name[Len(name)]>>                        \* sender_name.split('/')[-1]

ChatInit ==
  /\ users \in Directories
  /\ fetch_user_details \in BOOLEAN
  /\ received \in {[ok |-> FALSE, list |-> <<>>]}
                    \cup {[ok |-> TRUE, list |-> l] : l \in MessageLists}
  /\ messages = received
  /\ chat_pc = "list"
  /\ chat_idx = 1
  /\ user_cache = <<>>
  /\ lookups = <<>>
  /\ chat_result = <<>>
  /\ ProjIdle /\ ConcIdle /\ BusyIdle

\* Lines 526-531: None, an empty list, or no details wanted: returned as is.
ChatReturnAsIs ==
  /\ chat_pc = "list"
  /\ ~messages.ok \/ messages.list = <<>> \/ ~fetch_user_details
  /\ chat_pc' = "done"
  /\ chat_result' = messages
  /\ UNCHANGED <<users, fetch_user_details, received, messages, chat_idx,
                 user_cache, lookups>>
  /\ UNCHANGED <<projVars, concVars, busyVars>>

\* Line 534: the cache of this call.
ChatStartLoop ==
  /\ chat_pc = "list"
  /\ messages.ok /\ messages.list # <<>> /\ fetch_user_details
  /\ chat_pc' = "loop"
  /\ chat_idx' = 1
  /\ user_cache' = <<>>
  /\ UNCHANGED <<users, fetch_user_details, received, messages, lookups,
                 chat_result>>
  /\ UNCHANGED <<projVars, concVars, busyVars>>

\* A message the condition of line 540 passes over.
ChatSkip ==
  /\ chat_pc = "loop"
  /\ chat_idx <= Len(messages.list)
  /\ ~NeedsLookup(messages.list[chat_idx].sender)
  /\ chat_idx' = chat_idx + 1
  /\ UNCHANGED <<users, fetch_user_details, received, messages, chat_pc,
                 user_cache, lookups, chat_result>>
  /\ UNCHANGED <<projVars, concVars, busyVars>>

\* Lines 541-551 on a cache miss: one call of get_user_details.
ChatLookup ==
  /\ chat_pc = "loop"
  /\ chat_idx <= Len(messages.list)
  /\ LET name == messages.list[chat_idx].sender.name IN
       /\ NeedsLookup(messages.list[chat_idx].sender)
       /\ ~Cached(name, user_cache)
       /\ LET v == CacheValue(name, get_user_details(name)) IN
            /\ user_cache' = [x \in DOMAIN user_cache \cup {name} |->
                                IF x = name THEN v ELSE user_cache[x]]
            /\ messages' = [messages EXCEPT
                 !.list[chat_idx].sender.displayName = Text(v)]
       /\ lookups' = Append(lookups, name)
  /\ chat_idx' = chat_idx + 1
  /\ UNCHANGED <<users, fetch_user_details, received, chat_pc, chat_result>>
  /\ UNCHANGED <<projVars, concVars, busyVars>>

\* Lines 541-551 on a cache hit.
ChatFromCache ==
  /\ chat_pc = "loop"
  /\ chat_idx <= Len(messages.list)
  /\ LET name == messages.list[chat_idx].sender.name IN
       /\ NeedsLookup(messages.list[chat_idx].sender)
       /\ Cached(name, user_cache)
       /\ messages' = [messages EXCEPT
            !.list[chat_idx].sender.displayName = Text(user_cache[name])]
  /\ chat_idx' = chat_idx + 1
  /\ UNCHANGED <<users, fetch_user_details, received, chat_pc, user_cache,
                 lookups, chat_result>>
  /\ UNCHANGED <<projVars, concVars, busyVars>>

\* Line 553.
ChatReturn ==
  /\ chat_pc = "loop"
  /\ chat_idx > Len(messages.list)
  /\ chat_pc' = "done"
  /\ chat_result' = messages
  /\ UNCHANGED <<users, fetch_user_details, received, messages, chat_idx,
                 user_cache, lookups>>
  /\ UNCHANGED <<projVars, concVars, busyVars>>

ChatNext ==
  ChatReturnAsIs \/ ChatStartLoop \/ ChatSkip \/ ChatLookup \/ ChatFromCache
    \/ ChatReturn

SpecChat == ChatInit /\ [][ChatNext]_vars

\* =================================================================== claims
\* The projection as the specification describes it, stated on the backend
\* items: the anchor instant, the exclusion instants and the occurrence starts
\* of a rule inside the closed window.
SpecAnchor(raw) ==
  IF raw.start.dateTime.py # "none" THEN raw.start.dateTime.t ELSE raw.start.date.t

SpecExclusions(raw) ==
  UNION {{raw.recurrence.lines[k].values[j].t :
            j \in {j \in 1..Len(raw.recurrence.lines[k].values) :
                     raw.recurrence.lines[k].values[j].ok}} :
         k \in {k \in 1..Len(raw.recurrence.lines) :
                  /\ raw.recurrence.lines[k].kind = "EXDATE"
                  /\ raw.recurrence.lines[k].colon}}

SpecStarts(raw, line, tmin, tmax) ==
  {t \in RuleInstants([t |-> SpecAnchor(raw), interval |-> line.interval,
                       count |-> line.count]) :
     tmin.t <= t /\ t <= tmax.t} \ SpecExclusions(raw)

\* A recurring master event every part of which is well formed: a parsable
\* start of the window's timezone-awareness, an end (if any) not before the
\* start, at least one RRULE line, parsable rules and exclusion values.
WellFormed(raw, tmin) ==
  /\ raw.recurrence.present
  /\ RRuleIndexes(raw.recurrence.lines) # {}
  /\ \A k \in 1..Len(raw.recurrence.lines) :
       LET l == raw.recurrence.lines[k] IN
         /\ l.ok
         /\ \A j \in 1..Len(l.values) : l.values[j].ok
  /\ raw.start.present
  /\ \/ raw.start.dateTime.py = "str" /\ raw.start.dateTime.ok
        /\ raw.start.dateTime.aware = tmin.aware
     \/ raw.start.dateTime.py = "none" /\ raw.start.date.py = "str"
        /\ raw.start.date.ok
  /\ raw.end.present =>
       /\ raw.start.dateTime.py = "str"
       /\ raw.end.dateTime.py = "str" /\ raw.end.dateTime.ok
       /\ raw.end.dateTime.aware = raw.start.dateTime.aware
       /\ raw.end.dateTime.t >= raw.start.dateTime.t

\* The call is over (returned or raised) and the backend answered with
\* well-formed recurring events only.
FinishedWellFormed ==
  /\ pc \in {"done", "raised"}
  /\ backend_ok
  /\ \A i \in 1..Len(backend) : WellFormed(backend[i], time_min)

\* What the caller got: the returned list, or nothing when the call raised.
CallerGot == IF pc = "done" THEN result ELSE <<>>

OccurrencesOf(id) ==
  {n \in 1..Len(CallerGot) : CallerGot[n].original_event_id = id}

EmittedStarts(id) ==
  {CallerGot[n].occurrence_start.t : n \in OccurrencesOf(id)}

OneRRule(raw) == Cardinality(RRuleIndexes(raw.recurrence.lines)) = 1

TheRRule(raw) == raw.recurrence.lines[MinOf(RRuleIndexes(raw.recurrence.lines))]

\* C1: for every well-formed master event with one RRULE line, the starts
\* emitted for it are exactly the rule's instants anchored at dtstart, minus
\* the EXDATE instants, inside the closed window [time_min, time_max].
C1_ExactProjection ==
  FinishedWellFormed =>
    \A i \in 1..Len(backend) :
      OneRRule(backend[i]) =>
        EmittedStarts(i) = SpecStarts(backend[i], TheRRule(backend[i]),
                                      time_min, time_max)

\* C2: every returned occurrence starts inside [time_min, time_max], and the
\* window is closed: a rule instant equal to time_min or to time_max (and not
\* excluded) is returned.
C2_ClosedWindow ==
  FinishedWellFormed =>
    /\ \A n \in 1..Len(CallerGot) :
         /\ time_min.t <= CallerGot[n].occurrence_start.t
         /\ CallerGot[n].occurrence_start.t <= time_max.t
    /\ \A i \in 1..Len(backend) : \A b \in {time_min.t, time_max.t} :
         (OneRRule(backend[i]) /\
          b \in SpecStarts(backend[i], TheRRule(backend[i]), time_min, time_max))
           => b \in EmittedStarts(i)

\* C3: no occurrence of an event starts at one of its EXDATE instants, and
\* every other in-window instant of its rule is still returned.
C3_ExclusionLaw ==
  FinishedWellFormed =>
    \A i \in 1..Len(backend) :
      (OneRRule(backend[i]) /\ SpecExclusions(backend[i]) # {}) =>
        /\ EmittedStarts(i) \cap SpecExclusions(backend[i]) = {}
        /\ SpecStarts(backend[i], TheRRule(backend[i]), time_min, time_max)
             \subseteq EmittedStarts(i)

\* C6: the returned list is a permutation of the occurrences collected per
\* event, and two different master events whose rules both yield the same
\* in-window instant are both present with that start, as separate entries.
SameBag(s, t) ==
  /\ Len(s) = Len(t)
  /\ \A x \in {s[n] : n \in 1..Len(s)} \cup {t[n] : n \in 1..Len(t)} :
       Cardinality({n \in 1..Len(s) : s[n] = x}) =
       Cardinality({n \in 1..Len(t) : t[n] = x})

C6_NothingDroppedOrMerged ==
  FinishedWellFormed =>
    /\ pc = "done" => SameBag(result, projected_occurrences)
    /\ \A i, j \in 1..Len(backend) :
         (i # j /\ OneRRule(backend[i]) /\ OneRRule(backend[j])) =>
           \A t \in SpecStarts(backend[i], TheRRule(backend[i]), time_min, time_max)
                    \cap SpecStarts(backend[j], TheRRule(backend[j]), time_min, time_max) :
             t \in EmittedStarts(i) /\ t \in EmittedStarts(j)

\* C8: a master event with no recurrence list, an empty one, or one without
\* an RRULE line contributes no occurrence, whatever its start, end and the
\* window; with no or an empty list it is passed over by the continue of line
\* 576, and the rule engine is run for none of them.
NoRecurrenceList(event) ==
  ~event.recurrence.present \/ Len(event.recurrence.lines) = 0

HasNoRRule(event) ==
  \/ NoRecurrenceList(event)
  \/ \A n \in 1..Len(event.recurrence.lines) :
       event.recurrence.lines[n].kind # "RRULE"

C8_NoRRuleNoOccurrences ==
  \A k \in 1..Len(handled) :
    LET event == master_events[k] IN
      /\ NoRecurrenceList(event) => handled[k] = "no_recurrence"
      /\ HasNoRRule(event) =>
           /\ handled[k] \notin {"projected", "rule_failed"}
           /\ \A n \in 1..Len(projected_occurrences) :
                projected_occurrences[n].original_event_id # event.id
           /\ \A n \in 1..Len(result) : result[n].original_event_id # event.id

\* An event with a timed start and an empty recurrence list, and one with a
\* start and only an EXDATE line, have been handled and the call is over.
C8_Witness ==
  /\ pc \in {"done", "raised"}
  /\ \E k \in 1..Len(handled) :
       /\ master_events[k].recurrence.present
       /\ master_events[k].recurrence.lines = <<>>
       /\ Truthy(master_events[k].start.dateTime)
  /\ \E k \in 1..Len(handled) :
       /\ ~NoRecurrenceList(master_events[k])
       /\ HasNoRRule(master_events[k])
       /\ Truthy(master_events[k].start.dateTime)

\* C9: when the recurrence list holds more than one RRULE line, the emitted
\* occurrences are those of the first RRULE line in list order.
C9_FirstRRuleWins ==
  FinishedWellFormed =>
    \A i \in 1..Len(backend) :
      Cardinality(RRuleIndexes(backend[i].recurrence.lines)) > 1 =>
        EmittedStarts(i) = SpecStarts(backend[i], TheRRule(backend[i]),
                                      time_min, time_max)

\* C11: when the fetched list holds well-formed recurring events together with
\* an event that has a recurrence list but no start, the call returns (no
\* exception reaches the caller) and the output is the one of the well-formed
\* events alone.
MissingStart(raw) ==
  /\ raw.recurrence.present /\ Len(raw.recurrence.lines) > 0
  /\ \/ ~raw.start.present
     \/ raw.start.dateTime.py = "none" /\ raw.start.date.py = "none"

C11_SkipAndContinue ==
  ( /\ pc \in {"done", "raised"}
    /\ backend_ok
    /\ \A i \in 1..Len(backend) :
         WellFormed(backend[i], time_min) \/ MissingStart(backend[i])
    /\ \E i \in 1..Len(backend) : MissingStart(backend[i]) )
  => /\ pc = "done"
     /\ \A i \in 1..Len(backend) :
          /\ MissingStart(backend[i]) => EmittedStarts(i) = {}
          /\ (WellFormed(backend[i], time_min) /\ OneRRule(backend[i])) =>
               EmittedStarts(i) = SpecStarts(backend[i], TheRRule(backend[i]),
                                             time_min, time_max)

\* C12: no per-event error aborts the batch: whatever the backend returned,
\* the call never ends with an exception, and when it returns every item of
\* the response has gone through the loop.
C12_NoErrorAbortsBatch ==
  /\ pc # "raised"
  /\ pc = "done" /\ master_events # <<>> => Len(handled) = Len(master_events)

\* C14: when the master-event fetch fails (find_events returns None after an
\* HttpError or any other exception, a response that does not validate
\* included) the call returns the empty list and raises nothing.
FetchFails == ~backend_ok \/ ~EventsResponseValid(backend)

C14_FetchFailureGivesEmptyList ==
  (FetchFails /\ pc # "fetch") =>
    /\ pc = "done"
    /\ result = <<>>
    /\ exc = "none"
    /\ projected_occurrences = <<>>
    /\ handled = <<>>

\* The fetch failed on a backend that holds a recurring event with a start,
\* and the call is over.
C14_Witness ==
  /\ ~backend_ok
  /\ pc = "done"
  /\ \E i \in 1..Len(backend) :
       /\ backend[i].recurrence.present /\ Len(backend[i].recurrence.lines) > 0
       /\ backend[i].start.present /\ backend[i].start.dateTime.py = "str"
       /\ backend[i].start.dateTime.ok

\* C15: an EXDATE value that fails to parse is dropped on its own: the other
\* values still exclude their instants and the event's remaining in-window
\* occurrences are emitted.
OkValues(line) == SelectSeq(line.values, LAMBDA v : v.ok)

DropBadExdates(raw) ==
  LET lines == raw.recurrence.lines IN
    [raw EXCEPT !.recurrence =
       [present |-> raw.recurrence.present,
        lines |-> [k \in 1..Len(lines) |->
                     [lines[k] EXCEPT !.values = OkValues(lines[k])]]]]

HasBadExdate(raw) ==
  \E k \in 1..Len(raw.recurrence.lines) :
    /\ raw.recurrence.lines[k].kind = "EXDATE"
    /\ \E j \in 1..Len(raw.recurrence.lines[k].values) :
         ~raw.recurrence.lines[k].values[j].ok

C15_BadExdateDroppedAlone ==
  ( /\ pc \in {"done", "raised"}
    /\ backend_ok
    /\ \A i \in 1..Len(backend) :
         WellFormed(DropBadExdates(backend[i]), time_min) )
  => \A i \in 1..Len(backend) :
       (HasBadExdate(backend[i]) /\ OneRRule(backend[i])) =>
         EmittedStarts(i) = SpecStarts(backend[i], TheRRule(backend[i]),
                                       time_min, time_max)

\* C16: an event that reaches the derivation of lines 586-612 gets a duration:
\* one hour for a timed event without end.dateTime, one day for an all-day
\* event without end.date, end minus start when the matching end is there;
\* and every occurrence returned for it has that duration.
ReachesDerivation(event) ==
  /\ event.recurrence.present /\ Len(event.recurrence.lines) > 0
  /\ event.start.present
  /\ event.start.dateTime.py # "none" \/ event.start.date.py # "none"

ExpectedDuration(event) ==
  IF event.start.dateTime.py # "none"
    THEN IF event.end.present /\ event.end.dateTime.py # "none"
           THEN event.end.dateTime.t - event.start.dateTime.t
           ELSE DefaultTimedDuration
    ELSE IF event.end.present /\ event.end.date.py # "none"
           THEN event.end.date.t - event.start.date.t
           ELSE DefaultAllDayDuration

C16_DefaultDuration ==
  \A k \in 1..Len(handled) :
    LET event == master_events[k] IN
      ReachesDerivation(event) =>
        /\ StartAndDuration(event, time_min).exc = "none"
        /\ StartAndDuration(event, time_min).duration = ExpectedDuration(event)
        /\ \A n \in OccurrencesOf(event.id) :
             CallerGot[n].occurrence_end.t - CallerGot[n].occurrence_start.t
               = ExpectedDuration(event)

\* C19: with a timezone-aware anchor, an EXDATE value that parses to a naive
\* instant (with or without VALUE=DATE) takes the anchor's timezone, so the
\* occurrence at that instant is suppressed and the other in-window
\* occurrences of the event are emitted.
HasNaiveExdate(raw) ==
  \E k \in 1..Len(raw.recurrence.lines) :
    /\ raw.recurrence.lines[k].kind = "EXDATE"
    /\ raw.recurrence.lines[k].colon
    /\ \E j \in 1..Len(raw.recurrence.lines[k].values) :
         /\ raw.recurrence.lines[k].values[j].ok
         /\ ~raw.recurrence.lines[k].values[j].aware

C19_ExdateTakesAnchorTimezone ==
  FinishedWellFormed =>
    \A i \in 1..Len(backend) :
      ( /\ OneRRule(backend[i])
        /\ backend[i].start.dateTime.py = "str" /\ backend[i].start.dateTime.aware
        /\ HasNaiveExdate(backend[i]) )
      => /\ EmittedStarts(i) \cap SpecExclusions(backend[i]) = {}
         /\ EmittedStarts(i) = SpecStarts(backend[i], TheRRule(backend[i]),
                                          time_min, time_max)

\* C21: an all-day master event (start.date) is anchored at midnight of its
\* start date with the window's timezone-awareness, and its in-window
\* occurrences are emitted, each lasting one day.
AllDay(raw) ==
  /\ raw.start.present
  /\ raw.start.dateTime.py = "none"
  /\ raw.start.date.py = "str" /\ raw.start.date.ok

C21_AllDayProjected ==
  FinishedWellFormed =>
    \A i \in 1..Len(backend) :
      (AllDay(backend[i]) /\ OneRRule(backend[i])) =>
        /\ EmittedStarts(i) = SpecStarts(backend[i], TheRRule(backend[i]),
                                         time_min, time_max)
        /\ \A n \in OccurrencesOf(i) :
             /\ CallerGot[n].occurrence_start.aware = time_min.aware
             /\ CallerGot[n].occurrence_end.t - CallerGot[n].occurrence_start.t
                  = DefaultAllDayDuration

\* C22: the fetch does not depend on the window: a master event whose own
\* start lies before time_min is among the fetched items, and its occurrences
\* inside the window are returned.
StartsBeforeWindow(raw, tmin) ==
  /\ raw.start.present
  /\ raw.start.dateTime.py = "str" \/ raw.start.date.py = "str"
  /\ SpecAnchor(raw) < tmin.t

C22_FetchIgnoresWindow ==
  FinishedWellFormed =>
    /\ Len(master_events) = Len(backend)
    /\ \A i \in 1..Len(backend) :
         (StartsBeforeWindow(backend[i], time_min) /\ OneRRule(backend[i])) =>
           EmittedStarts(i) = SpecStarts(backend[i], TheRRule(backend[i]),
                                         time_min, time_max)

\* C28: recurrence strings that are neither RRULE nor EXDATE lines, and EXDATE
\* lines without a ':' separator, are inert: an event emits what it would emit
\* without them, and they never make the call skip the event or fail.
IgnoredLine(l) == l.kind = "OTHER" \/ (l.kind = "EXDATE" /\ ~l.colon)

HasIgnoredLine(raw) ==
  \E k \in 1..Len(raw.recurrence.lines) : IgnoredLine(raw.recurrence.lines[k])

OnlyIgnoredLines(raw) ==
  /\ raw.recurrence.present /\ Len(raw.recurrence.lines) > 0
  /\ \A k \in 1..Len(raw.recurrence.lines) : IgnoredLine(raw.recurrence.lines[k])
  /\ raw.start.present
  /\ raw.start.dateTime.py = "str" /\ raw.start.dateTime.ok

C28_IgnoredLinesAreInert ==
  ( /\ pc \in {"done", "raised"}
    /\ backend_ok
    /\ \A i \in 1..Len(backend) :
         WellFormed(backend[i], time_min) \/ OnlyIgnoredLines(backend[i])
    /\ \E i \in 1..Len(backend) : HasIgnoredLine(backend[i]) )
  => /\ pc = "done"
     /\ \A i \in 1..Len(backend) :
          /\ OnlyIgnoredLines(backend[i]) => EmittedStarts(i) = {}
          /\ (WellFormed(backend[i], time_min) /\ OneRRule(backend[i])) =>
               EmittedStarts(i) = SpecStarts(backend[i], TheRRule(backend[i]),
                                             time_min, time_max)

\* C26: a failed fetch and a backend that holds no recurring events cannot be
\* told apart by the caller: both calls return the empty list, and the server
\* tool answers both with the same 'No recurring event occurrences found' text.
HoldsNoRecurringEvents ==
  /\ backend_ok /\ EventsResponseValid(backend)
  /\ \A i \in 1..Len(backend) : NoRecurrenceList(backend[i])

C26_FailureLooksLikeNoEvents ==
  (FetchFails \/ HoldsNoRecurringEvents) =>
    /\ pc # "raised"
    /\ pc = "done" =>
         /\ result = <<>>
         /\ project_recurring_calendar_events(result)
              = [text |-> NoOccurrencesText, lines |-> <<>>]

C26_Witness ==
  /\ pc = "done"
  /\ HoldsNoRecurringEvents
  /\ Len(backend) = MaxEvents
  /\ Len(handled) = Len(backend)
  /\ project_recurring_calendar_events(result).text = NoOccurrencesText

\* C23: two calls in flight do not interfere: whatever the interleaving and
\* however the calendar changes meanwhile, each call ends as it would have
\* ended running alone on the response it fetched.
RECURSIVE AloneLoop(_, _, _, _, _)
AloneLoop(items, i, occs, tmin, tmax) ==
  IF i > Len(items)
    THEN IF SortRaises(occs)
           THEN [pc |-> "raised", exc |-> "TypeError", result |-> <<>>]
           ELSE [pc |-> "done", exc |-> "none", result |-> SortByStart(occs)]
    ELSE LET it == LoopBody(items[i], tmin, tmax) IN
           IF it.how = "raised"
             THEN [pc |-> "raised", exc |-> it.exc, result |-> <<>>]
             ELSE AloneLoop(items, i + 1, occs \o it.occs, tmin, tmax)

Alone(answer, tmin, tmax) ==
  IF ~answer.ok \/ ~EventsResponseValid(answer.items) \/ answer.items = <<>>
    THEN [pc |-> "done", exc |-> "none", result |-> <<>>]
    ELSE AloneLoop(EventsResponse(answer.items), 1, <<>>, tmin, tmax)

Finished(c) == calls[c].pc \in {"done", "raised"}

C23_ConcurrentCallsDoNotInterfere ==
  \A c \in DOMAIN calls :
    Finished(c) =>
      [pc |-> calls[c].pc, exc |-> calls[c].exc, result |-> calls[c].result]
        = Alone(calls[c].fetched, calls[c].time_min, calls[c].time_max)

\* Call 2 fetched before the calendar changed and is still in its loop; call 1
\* fetched the changed calendar and has already returned.
C23_Witness ==
  /\ DOMAIN calls = Calls
  /\ changes > 0
  /\ calls[2].pc = "loop" /\ calls[2].idx > 1
  /\ calls[2].fetched # calendar
  /\ calls[1].pc = "done" /\ calls[1].fetched = calendar
  /\ calls[1].handled # <<>>

\* C29: every entry of the dict analyze_busyness returns has event_count >= 1,
\* total_duration_minutes >= 0 and a date d with time_min.date() <= d <
\* time_max.date(); and a timed event of the window whose end precedes its
\* start is counted on its date and adds 0 minutes to it.
BusyReturned == IF bz_pc = "done" THEN bz_result ELSE <<>>

EndsBeforeStart(raw) ==
  /\ raw.start.present
  /\ raw.start.dateTime.py = "str" /\ raw.start.dateTime.ok
  /\ raw.end.present
  /\ raw.end.dateTime.py = "str" /\ raw.end.dateTime.ok
  /\ raw.end.dateTime.aware = raw.start.dateTime.aware
  /\ raw.end.dateTime.t < raw.start.dateTime.t

StartsInWindow(raw, tmin, tmax) ==
  /\ date_of(tmin.t) <= date_of(raw.start.dateTime.t)
  /\ date_of(raw.start.dateTime.t) < date_of(tmax.t)

C29_BusynessEntries ==
  ( /\ bz_pc \in {"done", "raised"}
    /\ bz_ok /\ EventsResponseValid(bz_backend) )
  => /\ \A d \in DOMAIN BusyReturned :
          /\ BusyReturned[d].event_count >= 1
          /\ BusyReturned[d].total_duration_minutes >= 0
          /\ date_of(bz_min.t) <= d /\ d < date_of(bz_max.t)
     /\ \A i \in 1..Len(bz_backend) :
          (EndsBeforeStart(bz_backend[i])
             /\ StartsInWindow(bz_backend[i], bz_min, bz_max)) =>
            LET d == date_of(bz_backend[i].start.dateTime.t) IN
              /\ bz_pc = "done"
              /\ d \in DOMAIN bz_result
              /\ Len(bz_backend) = 1 => bz_result[d].total_duration_minutes = 0

\* C30 as stated: within one invocation get_user_details is called at most
\* once per sender name, and every message whose sender lacked a displayName
\* receives the fetched displayName, or the last segment of the sender name
\* when the lookup failed.
LoopRan ==
  /\ chat_pc = "done"
  /\ received.ok /\ received.list # <<>> /\ fetch_user_details

Lacked(i) == Falsy(received.list[i].sender.displayName)

IsUserName(name) == Len(name) > 1 /\ name[1] = "users"

LastSegment(name) == <<name[Len(name)]>>

AtMostOncePerSender ==
  \A i, j \in 1..Len(lookups) : lookups[i] = lookups[j] => i = j

C30_OncePerSenderFetchedOrLastSegment ==
  /\ AtMostOncePerSender
  /\ LoopRan =>
       \A i \in 1..Len(received.list) :
         LET name == received.list[i].sender.name
             out  == chat_result.list[i].sender.displayName IN
           (Lacked(i) /\ name # <<>>) =>
             /\ out.has
             /\ \/ users[name].kind = "fail" /\ out.text = LastSegment(name)
                \/ users[name].kind = "dict" /\ out = users[name].displayName

\* C30 amended: the lookup is made only for sender names that start with
\* 'users/'; the value every such message receives is the displayName of the
\* fetched dict, the whole sender name when that dict has no displayName, and
\* the last segment of the name when the lookup fails or returns an empty
\* dict; every other message is returned as it was received.
ExpectedName(name) ==
  CASE users[name].kind = "dict" -> users[name].displayName.text
    [] users[name].kind = "no_display" -> name
    [] OTHER -> LastSegment(name)

C30_OncePerUserSenderCachedName ==
  /\ AtMostOncePerSender
  /\ LoopRan =>
       \A i \in 1..Len(received.list) :
         LET s   == received.list[i].sender
             out == chat_result.list[i].sender IN
           IF Lacked(i) /\ IsUserName(s.name)
             THEN /\ out = Sender(s.name, Text(ExpectedName(s.name)))
                  /\ \E k \in 1..Len(lookups) : lookups[k] = s.name
             ELSE out = s

\* Two messages of users/a without displayName, a lookup that returns a dict
\* without displayName: one call, and both messages carry 'users/a'.
C30_Witness ==
  /\ LoopRan
  /\ users[UserA].kind = "no_display"
  /\ lookups = <<UserA>>
  /\ \E i, j \in 1..Len(received.list) :
       /\ i < j
       /\ received.list[i].sender = Sender(UserA, Absent)
       /\ received.list[j].sender = Sender(UserA, Absent)
       /\ chat_result.list[i].sender.displayName = Text(UserA)
       /\ chat_result.list[j].sender.displayName = Text(UserA)

=============================================================================
